---- MODULE Spec2Model ----
(***************************************************************************)
(* autoyear: the AutoYear and Copyright components and the useAutoYear and *)
(* useCopyright hooks of src/src/index.tsx.                                *)
(*                                                                         *)
(* The program keeps no state of its own.  The only state it reads is the  *)
(* system clock (new Date().getFullYear()).  The model has the clock, the  *)
(* most recent call (which function, with which arguments, at which clock  *)
(* year, returning what) and whether that call repeated the one before it. *)
(*                                                                         *)
(* JavaScript strings are TLA+ strings.  An optional property or argument  *)
(* is Absent (undefined / not passed) or Present(v).                       *)
(***************************************************************************)
EXTENDS Integers, Sequences, FiniteSets, TLC

VARIABLES
    clock,      \* the year the system clock reads
    lastCall,   \* history: the most recent call and what it returned
    repeat      \* history: the most recent call had the same function,
                \* arguments and clock year as the call before it

vars == <<clock, lastCall, repeat>>

(* Bounds of the model: the clock runs from FirstYear to MaxYear. *)
FirstYear == 2024
MaxYear == 2026

Absent == <<>>
Present(v) == <<v>>

(***************************************************************************)
(* Inputs the callers supply.  startYear is a negative year, 0, 1 or the   *)
(* second year of the clock's range, which the clock meets from below, at  *)
(* and from above.  Copyright is rendered either unstyled with any of the  *)
(* formatting options, or with any styling and no option or only a name.   *)
(***************************************************************************)
Tags == {Absent, Present("strong")}
ClassNames == {Absent, Present("year")}
Styles == {Absent, Present([fontWeight |-> "bold"])}
Prefixes == {Absent, Present(""), Present("Copyright")}
Names == {Absent, Present(""), Present("X")}
Separators == {Absent, Present(""), Present("-")}
StartYears == {Absent} \cup {Present(y) : y \in {-1, 0, 1, FirstYear + 1}}

AutoYearProps == [as : Tags, className : ClassNames, style : Styles]
UseCopyrightOptions ==
    [prefix : Prefixes, name : Names, startYear : StartYears, separator : Separators]
EmptyOptions ==
    [prefix |-> Absent, name |-> Absent, startYear |-> Absent, separator |-> Absent]
Unstyled == [as |-> Absent, className |-> Absent, style |-> Absent]
WithProps(s, o) ==
    [as |-> s.as, className |-> s.className, style |-> s.style,
     prefix |-> o.prefix, name |-> o.name, startYear |-> o.startYear,
     separator |-> o.separator]
CopyrightProps ==
    {WithProps(Unstyled, o) : o \in UseCopyrightOptions}
    \cup {WithProps(s, o) : s \in AutoYearProps,
                            o \in {EmptyOptions, [EmptyOptions EXCEPT !.name = Present("X")]}}
UseCopyrightArgs == {Absent} \cup {Present(o) : o \in UseCopyrightOptions}

(***************************************************************************)
(* Built-ins the code calls.                                               *)
(***************************************************************************)

(* new Date().getFullYear(): the year the system clock reads now; a year   *)
(* kept from the previous call instead of read again is the stale variant. *)
getFullYearStale == IF lastCall.fn = "none" THEN clock ELSE lastCall.year
getFullYear == clock

digit(d) ==
    CASE d = 0 -> "0" [] d = 1 -> "1" [] d = 2 -> "2" [] d = 3 -> "3" [] d = 4 -> "4"
      [] d = 5 -> "5" [] d = 6 -> "6" [] d = 7 -> "7" [] d = 8 -> "8" [] d = 9 -> "9"

RECURSIVE digits(_)
digits(n) == IF n < 10 THEN digit(n) ELSE digits(n \div 10) \o digit(n % 10)

(* Number.prototype.toString() and ${n} of an integer. *)
toString(n) == IF n < 0 THEN "-" \o digits(-n) ELSE digits(n)

(* Boolean(v) of a string or undefined, as .filter(Boolean) applies it;    *)
(* the variant drops undefined only.                                       *)
BooleanDefined(v) == v # Absent
Boolean(v) == v # Absent /\ v[1] # ""

(* Array.prototype.join on an array of strings. *)
RECURSIVE join(_, _)
join(parts, separator) ==
    IF parts = <<>> THEN ""
    ELSE IF Len(parts) = 1 THEN parts[1][1]
    ELSE parts[1][1] \o separator \o join(Tail(parts), separator)

(* React.createElement(type, {className, style}, child). *)
createElement(type, config, child) ==
    [type |-> type,
     props |-> [className |-> config.className, style |-> config.style,
                children |-> child]]

(***************************************************************************)
(* AutoYear                                                                *)
(***************************************************************************)
AutoYear(props) ==
    LET Component == IF props.as = Absent THEN "span" ELSE props.as[1]
        year == getFullYear
    IN  createElement(Component,
                      [className |-> props.className, style |-> props.style],
                      toString(year))

(***************************************************************************)
(* Copyright                                                               *)
(***************************************************************************)
Copyright_destructureDiv(props) ==
    [Component |-> IF props.as = Absent THEN "div" ELSE props.as[1],
     className |-> props.className,
     style     |-> props.style,
     prefix    |-> IF props.prefix = Absent THEN "©" ELSE props.prefix[1],
     name      |-> props.name,
     startYear |-> props.startYear,
     separator |-> IF props.separator = Absent THEN " " ELSE props.separator[1]]

Copyright_destructure(props) ==
    [Component |-> IF props.as = Absent THEN "span" ELSE props.as[1],
     className |-> props.className,
     style     |-> props.style,
     prefix    |-> IF props.prefix = Absent THEN "©" ELSE props.prefix[1],
     name      |-> props.name,
     startYear |-> props.startYear,
     separator |-> IF props.separator = Absent THEN " " ELSE props.separator[1]]

Copyright_yearDisplayLe(startYear, currentYear) ==
    IF startYear # Absent /\ startYear[1] # 0 /\ startYear[1] <= currentYear
    THEN toString(startYear[1]) \o "-" \o toString(currentYear)
    ELSE toString(currentYear)

Copyright_yearDisplay(startYear, currentYear) ==
    IF startYear # Absent /\ startYear[1] # 0 /\ startYear[1] < currentYear
    THEN toString(startYear[1]) \o "-" \o toString(currentYear)
    ELSE toString(currentYear)

Copyright_parts(prefix, yearDisplay, name) ==
    SelectSeq(<<Present(prefix), Present(yearDisplay), name>>, Boolean)

Copyright(props) ==
    LET p == Copyright_destructure(props)
        currentYear == getFullYear
        yearDisplay == Copyright_yearDisplay(p.startYear, currentYear)
        parts == Copyright_parts(p.prefix, yearDisplay, p.name)
        text == join(parts, p.separator)
    IN  createElement(p.Component, [className |-> p.className, style |-> p.style],
                      text)

(***************************************************************************)
(* useAutoYear                                                             *)
(***************************************************************************)
useAutoYear == getFullYear

(***************************************************************************)
(* useCopyright                                                            *)
(***************************************************************************)
(* Variant: falsy values take the default too (prefix || "©"). *)
useCopyright_destructureOr(options) ==
    LET o == IF options = Absent THEN EmptyOptions ELSE options[1]
    IN  [prefix    |-> IF o.prefix = Absent \/ o.prefix = Present("")
                       THEN "©" ELSE o.prefix[1],
         name      |-> o.name,
         startYear |-> o.startYear,
         separator |-> IF o.separator = Absent \/ o.separator = Present("")
                       THEN " " ELSE o.separator[1]]

(* Variant: a name left out falls back to the name of the previous call    *)
(* (defaults kept in an object shared between calls).                      *)
useCopyright_destructureShared(options) ==
    LET o == IF options = Absent THEN EmptyOptions ELSE options[1]
    IN  [prefix    |-> IF o.prefix = Absent THEN "©" ELSE o.prefix[1],
         name      |-> IF o.name = Absent /\ lastCall.fn = "useCopyright"
                          /\ lastCall.args # Absent
                       THEN lastCall.args[1].name ELSE o.name,
         startYear |-> o.startYear,
         separator |-> IF o.separator = Absent THEN " " ELSE o.separator[1]]

useCopyright_destructure(options) ==
    LET o == IF options = Absent THEN EmptyOptions ELSE options[1]
    IN  [prefix    |-> IF o.prefix = Absent THEN "©" ELSE o.prefix[1],
         name      |-> o.name,
         startYear |-> o.startYear,
         separator |-> IF o.separator = Absent THEN " " ELSE o.separator[1]]

useCopyright_yearDisplayLe(startYear, currentYear) ==
    IF startYear # Absent /\ startYear[1] # 0 /\ startYear[1] <= currentYear
    THEN toString(startYear[1]) \o "-" \o toString(currentYear)
    ELSE toString(currentYear)

useCopyright_yearDisplay(startYear, currentYear) ==
    IF startYear # Absent /\ startYear[1] # 0 /\ startYear[1] < currentYear
    THEN toString(startYear[1]) \o "-" \o toString(currentYear)
    ELSE toString(currentYear)

useCopyright_partsNameFirst(prefix, yearDisplay, name) ==
    SelectSeq(<<Present(prefix), name, Present(yearDisplay)>>, Boolean)

useCopyright_parts(prefix, yearDisplay, name) ==
    SelectSeq(<<Present(prefix), Present(yearDisplay), name>>, Boolean)

useCopyright(options) ==
    LET o == useCopyright_destructure(options)
        currentYear == getFullYear
        yearDisplay == useCopyright_yearDisplay(o.startYear, currentYear)
        parts == useCopyright_parts(o.prefix, yearDisplay, o.name)
    IN  join(parts, o.separator)

(***************************************************************************)
(* The state machine: the clock moves on, and callers call the four        *)
(* exported functions in any order with any arguments.                     *)
(***************************************************************************)
Init ==
    /\ clock = FirstYear
    /\ lastCall = [fn |-> "none", args |-> Absent, clockAt |-> FirstYear,
                   year |-> FirstYear, result |-> Absent]
    /\ repeat = FALSE

Record(fn, args, year, result) ==
    /\ lastCall' = [fn |-> fn, args |-> args, clockAt |-> clock,
                    year |-> year, result |-> result]
    /\ repeat' = (lastCall.fn = fn /\ lastCall.args = args /\ lastCall.clockAt = clock)
    /\ UNCHANGED clock

ClockAdvance ==
    /\ clock < MaxYear
    /\ clock' = clock + 1
    /\ UNCHANGED <<lastCall, repeat>>

RenderAutoYear ==
    \E props \in AutoYearProps :
        Record("AutoYear", props, getFullYear, AutoYear(props))

RenderCopyright ==
    \E props \in CopyrightProps :
        Record("Copyright", props, getFullYear, Copyright(props))

CallUseAutoYear ==
    Record("useAutoYear", Absent, getFullYear, useAutoYear)

CallUseCopyright ==
    \E options \in UseCopyrightArgs :
        Record("useCopyright", options, getFullYear, useCopyright(options))

Next ==
    \/ ClockAdvance
    \/ RenderAutoYear
    \/ RenderCopyright
    \/ CallUseAutoYear
    \/ CallUseCopyright

Spec == Init /\ [][Next]_vars

(***************************************************************************)
(* What the properties below speak about: the most recent call.            *)
(***************************************************************************)
IsFormat == lastCall.fn \in {"Copyright", "useCopyright"}
IsWrapper == lastCall.fn \in {"AutoYear", "Copyright"}

(* The four formatting options the caller gave. *)
Given ==
    IF lastCall.fn = "Copyright"
    THEN [prefix |-> lastCall.args.prefix, name |-> lastCall.args.name,
          startYear |-> lastCall.args.startYear, separator |-> lastCall.args.separator]
    ELSE IF lastCall.args = Absent THEN EmptyOptions ELSE lastCall.args[1]

(* The text the call produced, and the clock year at the time of the call. *)
Text == IF IsWrapper THEN lastCall.result.props.children ELSE lastCall.result
Y == lastCall.clockAt

AllDefaulted(o) == o.prefix = Absent /\ o.separator = Absent /\ o.name = Absent

(* The documented values of the options. *)
PrefixOr(o) == IF o.prefix = Absent THEN "©" ELSE o.prefix[1]
SeparatorOr(o) == IF o.separator = Absent THEN " " ELSE o.separator[1]
NameOr(o) == IF o.name = Absent THEN "" ELSE o.name[1]

Range(S, y) == ToString(S) \o "-" \o ToString(y)

(* A year display is the clock year, or a range ending in it. *)
YearForms(o, y) ==
    {ToString(y)} \cup (IF o.startYear = Absent THEN {} ELSE {Range(o.startYear[1], y)})

(* prefix, year display and name, the empty ones left out, sep between. *)
Assembled(p, yd, n, sep) ==
    CASE p # "" /\ n # "" -> p \o sep \o yd \o sep \o n
      [] p # "" /\ n = "" -> p \o sep \o yd
      [] p = "" /\ n # "" -> yd \o sep \o n
      [] OTHER            -> yd

(* C1: whenever startYear is present (0 and negative years included) and   *)
(* below the clock year, Copyright and useCopyright show the range S-Y;    *)
(* with everything else defaulted the text is "© S-Y".                     *)
C1_RangeWhenStartBelowYear ==
    (IsFormat /\ Given.startYear # Absent /\ Given.startYear[1] < Y) =>
        /\ Text = Assembled(PrefixOr(Given), Range(Given.startYear[1], Y),
                            NameOr(Given), SeparatorOr(Given))
        /\ AllDefaulted(Given) => Text = "© " \o Range(Given.startYear[1], Y)

(* C2: startYear absent, equal to the clock year or above it shows no      *)
(* range: the year display is the decimal string of Y, and with everything *)
(* else defaulted the text is "© Y".                                       *)
C2_NoRangeOtherwise ==
    (IsFormat /\ (Given.startYear = Absent \/ Given.startYear[1] >= Y)) =>
        /\ Text = Assembled(PrefixOr(Given), ToString(Y), NameOr(Given),
                            SeparatorOr(Given))
        /\ AllDefaulted(Given) => Text = "© " \o ToString(Y)

C2_Witness ==
    /\ IsFormat /\ AllDefaulted(Given)
    /\ Given.startYear # Absent /\ Given.startYear[1] > Y
    /\ Text = "© " \o ToString(Y)

(* C3: a non-empty name with every other option defaulted gives exactly    *)
(* "© Y N".                                                                *)
C3_NameAfterYear ==
    (/\ IsFormat /\ Given.prefix = Absent /\ Given.separator = Absent
     /\ Given.startYear = Absent /\ Given.name # Absent /\ Given.name # Present(""))
        => Text = "© " \o ToString(Y) \o " " \o Given.name[1]

C3_Witness ==
    /\ lastCall.fn = "useCopyright" /\ lastCall.args # Absent
    /\ Given = [EmptyOptions EXCEPT !.name = Present("X")]
    /\ Text = "© " \o ToString(Y) \o " X"

(* C4: an empty prefix is left out together with its separator: the text   *)
(* is the year display followed, when there is a non-empty name, by the    *)
(* separator and the name, and the year display alone otherwise.           *)
C4_EmptyPrefixOmitted ==
    (IsFormat /\ Given.prefix = Present("")) =>
        \E yd \in YearForms(Given, Y) :
            Text = IF NameOr(Given) = "" THEN yd
                   ELSE yd \o SeparatorOr(Given) \o NameOr(Given)

C4_Witness ==
    /\ IsFormat /\ Given.prefix = Present("") /\ Given.separator = Present("-")
    /\ Given.name = Present("X") /\ Given.startYear = Absent
    /\ Text = ToString(Y) \o "-X"

(* C5: a separator the caller gives, the empty string included, stands at  *)
(* every boundary between kept parts in place of the space; the space      *)
(* stands there only when no separator is given.                           *)
C5_SeparatorJoins ==
    IsFormat =>
        LET p == PrefixOr(Given)
            n == NameOr(Given)
            between == IF Given.separator = Absent THEN " " ELSE Given.separator[1]
        IN  /\ \E yd \in YearForms(Given, Y) :
                   Text = (IF p = "" THEN "" ELSE p \o between) \o yd
                          \o (IF n = "" THEN "" ELSE between \o n)
            /\ (/\ Given.separator = Present("-") /\ Given.name = Present("X")
                /\ Given.prefix = Absent /\ Given.startYear = Absent)
                   => Text = "©-" \o ToString(Y) \o "-X"
            /\ (/\ Given.separator = Present("") /\ Given.name = Present("X")
                /\ Given.prefix = Absent /\ Given.startYear = Absent)
                   => Text = "©" \o ToString(Y) \o "X"

C5_Witness ==
    /\ IsFormat /\ Given.separator = Present("") /\ Given.name = Present("X")
    /\ Given.prefix = Absent /\ Given.startYear = Absent
    /\ Text = "©" \o ToString(Y) \o "X"

(* A step that records a call (a call that repeats the previous one with   *)
(* the same result, a second time over, changes nothing and is no step).   *)
Called ==
    \/ repeat' # repeat
    \/ lastCall'.fn # lastCall.fn
    \/ lastCall'.clockAt # lastCall.clockAt
    \/ lastCall'.args # lastCall.args
    \/ lastCall'.result # lastCall.result

C7_WrapperElement ==
    IsWrapper =>
        LET e == lastCall.result
            a == lastCall.args
        IN  /\ DOMAIN e = {"type", "props"}
            /\ DOMAIN e.props = {"className", "style", "children"}
            /\ e.type = IF a.as = Absent THEN "span" ELSE a.as[1]
            /\ e.props.className = a.className
            /\ e.props.style = a.style
            /\ lastCall.fn = "AutoYear" => e.props.children = ToString(Y)
            /\ lastCall.fn = "Copyright" =>
                   \E yd \in YearForms(Given, Y) :
                       e.props.children = Assembled(PrefixOr(Given), yd, NameOr(Given),
                                                    SeparatorOr(Given))

C7_Witness ==
    /\ lastCall.fn = "Copyright"
    /\ lastCall.args.as = Absent
    /\ lastCall.args.className = Present("year")
    /\ lastCall.args.style = Present([fontWeight |-> "bold"])
    /\ lastCall.result =
           [type |-> "span",
            props |-> [className |-> Present("year"),
                       style |-> Present([fontWeight |-> "bold"]),
                       children |-> "© " \o ToString(Y) \o " X"]]

(* C8: the text is the non-empty ones of prefix, year display and name, in *)
(* that order, with one separator between neighbours and none before or    *)
(* after; the year display is never left out.                              *)
C8_KeptPartsInOrder ==
    IsFormat =>
        \E yd \in YearForms(Given, Y) :
            LET p == PrefixOr(Given)
                n == NameOr(Given)
                sep == SeparatorOr(Given)
                kept == Cardinality({i \in 1..3 : <<p, yd, n>>[i] # ""})
            IN  /\ yd # ""
                /\ Text = Assembled(p, yd, n, sep)
                /\ Len(Text) = Len(p) + Len(yd) + Len(n) + (kept - 1) * Len(sep)

C8_Witness ==
    /\ IsFormat /\ Given.prefix = Present("Copyright") /\ Given.name = Present("")
    /\ Given.separator = Present("-") /\ Given.startYear = Present(-1)
    /\ Text = "Copyright--1-" \o ToString(Y)

(* C9: under the same clock year, the text Copyright renders is the string *)
(* useCopyright returns for the same four options, and the other way       *)
(* round.                                                                  *)
C9_ComponentMatchesHook ==
    /\ (lastCall.fn = "Copyright" /\ lastCall.clockAt = clock)
           => lastCall.result.props.children = useCopyright(Present(Given))
    /\ (lastCall.fn = "useCopyright" /\ lastCall.clockAt = clock)
           => lastCall.result = Copyright(WithProps(Unstyled, Given)).props.children

C9_Witness ==
    /\ lastCall.fn = "Copyright" /\ lastCall.clockAt = clock
    /\ Given.startYear = Present(FirstYear + 1) /\ Y = FirstYear + 1
    /\ Given.name = Present("X") /\ Given.prefix = Absent /\ Given.separator = Absent
    /\ Text = "© " \o ToString(Y) \o " X"
    /\ useCopyright(Present(Given)) = Text

(* C10: every call builds its output from the year the clock read when the *)
(* call was made, never from an earlier one, and from that year alone.     *)
C10_YearReadAtCall ==
    lastCall.fn # "none" =>
        /\ lastCall.year = Y
        /\ lastCall.fn = "AutoYear" => Text = ToString(Y)
        /\ lastCall.fn = "useAutoYear" => lastCall.result = Y
        /\ IsFormat =>
               \E yd \in YearForms(Given, Y) :
                   Text = Assembled(PrefixOr(Given), yd, NameOr(Given), SeparatorOr(Given))

C10_Witness ==
    /\ lastCall.fn = "AutoYear" /\ Y = MaxYear /\ Y > FirstYear
    /\ Text = ToString(MaxYear)

====
